---- MODULE Spec2Model ----
(***************************************************************************)
(* Model of scripts/init_skill.py: create_skill(name, is_global) validates *)
(* a skill name, resolves the target directory, refuses an existing        *)
(* target, creates three sub-directories with os.makedirs(exist_ok=True)   *)
(* and writes SKILL.md.                                                    *)
(*                                                                         *)
(* A name is a sequence of one-character strings.  A path segment is a     *)
(* sequence of strings: <<"scripts">> for a fixed segment, the name itself *)
(* for the skill's directory.  The file system maps absolute paths         *)
(* (sequences of segments) to entries.                                     *)
(***************************************************************************)
EXTENDS Integers, Sequences, FiniteSets, TLC

VARIABLES fs, procs, hist

vars == <<fs, procs, hist>>

----------------------------------------------------------------------------
(* Bounds *)

MaxLen == 3      \* longest name examined by SpecOnce
MaxFault == 9    \* the k-th mutating system call of a run may fail, k <= MaxFault

----------------------------------------------------------------------------
(* Characters and the str predicates used at line 9 *)

LowerChars == {"a", "b"}
UpperChars == {"A", "B"}
DigitChars == {"1"}
Hyphen == "-"
OtherChars == {"_"}

\* the characters names are drawn from
Alphabet == LowerChars \cup {"A"} \cup DigitChars \cup {Hyphen} \cup OtherChars

IsLetter(c) == c \in LowerChars \cup UpperChars
IsCased(c) == IsLetter(c)
IsAlnumChar(c) == IsLetter(c) \/ c \in DigitChars

ToUpper(c) == IF c = "a" THEN "A" ELSE IF c = "b" THEN "B" ELSE c
ToLower(c) == IF c = "A" THEN "a" ELSE IF c = "B" THEN "b" ELSE c

Range(s) == {s[i] : i \in 1..Len(s)}

\* name.replace('-', '')
RECURSIVE RemoveHyphens(_)
RemoveHyphens(s) ==
    IF s = <<>> THEN <<>>
    ELSE IF Head(s) = Hyphen THEN RemoveHyphens(Tail(s))
    ELSE <<Head(s)>> \o RemoveHyphens(Tail(s))

\* name.replace('-', ' ')
HyphensToSpaces(s) == [i \in 1..Len(s) |-> IF s[i] = Hyphen THEN " " ELSE s[i]]

\* str.isalnum(): non-empty and every character alphanumeric
IsAlnum(s) == s # <<>> /\ \A i \in 1..Len(s) : IsAlnumChar(s[i])

\* str.islower(): at least one cased character and no uppercase one
IsLower(s) ==
    /\ \E i \in 1..Len(s) : IsCased(s[i])
    /\ \A i \in 1..Len(s) : s[i] \notin UpperChars

IsValidName_NoLowerCheck(name) == IsAlnum(RemoveHyphens(name))

IsValidName_HyphensKept(name) == IsAlnum(name) /\ IsLower(name)

\* the negation of the condition at line 9
IsValidName(name) == IsAlnum(RemoveHyphens(name)) /\ IsLower(name)

\* str.title(): a character is title-cased when the previous one is not
\* cased, lower-cased otherwise
RECURSIVE TitleFrom(_, _)
TitleFrom(s, previous_is_cased) ==
    IF s = <<>> THEN <<>>
    ELSE <<IF previous_is_cased THEN ToLower(Head(s)) ELSE ToUpper(Head(s))>>
         \o TitleFrom(Tail(s), IsCased(Head(s)))

StrTitle_FirstOnly(s) ==
    IF s = <<>> THEN <<>> ELSE <<ToUpper(Head(s))>> \o Tail(s)

StrTitle(s) == TitleFrom(s, FALSE)

\* name.replace('-', ' ').title(), line 45
Title(name) == StrTitle(HyphensToSpaces(name))

----------------------------------------------------------------------------
(* Paths *)

Seg(s) == <<s>>

Home == <<Seg("home"), Seg("user")>>       \* Path.home()
Cwd == <<Seg("tmp"), Seg("proj")>>         \* the current working directory
ProjectRoot == <<Seg("tmp")>>              \* an enclosing directory holding .opencode

Join(path, seg) == [rel |-> path.rel, segs |-> Append(path.segs, seg)]

BasePath_Swapped(is_global) ==
    IF is_global
    THEN [rel |-> TRUE, segs |-> <<Seg(".opencode"), Seg("skill")>>]
    ELSE [rel |-> FALSE,
          segs |-> Home \o <<Seg(".config"), Seg("opencode"), Seg("skill")>>]

\* lines 14-20
BasePath(is_global) ==
    IF is_global
    THEN [rel |-> FALSE,
          segs |-> Home \o <<Seg(".config"), Seg("opencode"), Seg("skill")>>]
    ELSE [rel |-> TRUE, segs |-> <<Seg(".opencode"), Seg("skill")>>]

\* line 22
SkillPath(name, is_global) == Join(BasePath(is_global), name)

\* a relative path is resolved against the working directory by the system
Abs(path) == IF path.rel THEN Cwd \o path.segs ELSE path.segs

Parent(path) == [rel |-> path.rel, segs |-> SubSeq(path.segs, 1, Len(path.segs) - 1)]

\* os.path.split gives an empty head for a one-segment relative path
HeadIsEmpty(path) == path.rel /\ Len(path.segs) = 1

IsPrefix(a, b) == Len(a) <= Len(b) /\ SubSeq(b, 1, Len(a)) = a

Subdirs == <<Seg("scripts"), Seg("references"), Seg("assets")>>

SkillMd == Seg("SKILL.md")

----------------------------------------------------------------------------
(* File system *)

Dir == [kind |-> "dir", data |-> <<>>]
DanglingLink == [kind |-> "link", data |-> <<>>]
File(data) == [kind |-> "file", data |-> data]

Present(f, a) == a \in DOMAIN f

Put(f, a, e) == [x \in DOMAIN f \cup {a} |-> IF x = a THEN e ELSE f[x]]

\* Path.exists() / os.path.exists(): follows symbolic links, so a link whose
\* target is missing does not exist
Exists(f, path) == Present(f, Abs(path)) /\ f[Abs(path)].kind \in {"dir", "file"}

\* os.path.isdir()
IsDir(f, path) == Present(f, Abs(path)) /\ f[Abs(path)].kind = "dir"

\* errno of mkdir(path) when it cannot succeed, "ok" otherwise
MkdirErrno(f, path) ==
    LET a == Abs(path)
        par == SubSeq(a, 1, Len(a) - 1)
    IN  IF Present(f, a) THEN "EEXIST"
        ELSE IF ~Present(f, par) \/ f[par].kind = "link" THEN "ENOENT"
        ELSE IF f[par].kind = "file" THEN "ENOTDIR"
        ELSE "ok"

\* errno of open(path, "w")
OpenErrno(f, path) ==
    LET a == Abs(path)
        par == SubSeq(a, 1, Len(a) - 1)
    IN  IF ~Present(f, par) \/ f[par].kind = "link" THEN "ENOENT"
        ELSE IF f[par].kind = "file" THEN "ENOTDIR"
        ELSE IF Present(f, a) /\ f[a].kind = "dir" THEN "EISDIR"
        ELSE "ok"

----------------------------------------------------------------------------
(* The rendered SKILL.md, lines 40-57: a sequence of lines, each a sequence  *)
(* of strings, every line terminated by a newline                            *)

\* stands for the grave accent character of lines 54-56
Backtick == "<grave accent>"

SkillMdContent_NoTitle(name) ==
    << <<"---">>,
       <<"name: ">> \o name,
       <<"description: [TODO: Add a concise description of what this skill does and when to use it]">>,
       <<"---">>,
       <<>>,
       <<"# ">> \o name >>

SkillMdContent(name) ==
    << <<"---">>,
       <<"name: ">> \o name,
       <<"description: [TODO: Add a concise description of what this skill does and when to use it]">>,
       <<"---">>,
       <<>>,
       <<"# ">> \o Title(name),
       <<>>,
       <<"## Overview">>,
       <<"[TODO: Describe the skill's purpose]">>,
       <<>>,
       <<"## Usage">>,
       <<"[TODO: Describe how to use the skill]">>,
       <<>>,
       <<"## Resources">>,
       <<"* Scripts are in ", Backtick, "scripts/", Backtick>>,
       <<"* References are in ", Backtick, "references/", Backtick>>,
       <<"* Assets are in ", Backtick, "assets/", Backtick>> >>

----------------------------------------------------------------------------
(* One invocation of the script: a process                                  *)

NoPath == [rel |-> TRUE, segs |-> <<>>]

Msg(stream, text, name, path) ==
    [stream |-> stream, text |-> text, name |-> name, path |-> path]

\* the state of a process entering create_skill (main, lines 67-73);
\* fault = k > 0: the k-th mutating system call that could succeed fails
NewProc(name, is_global, fault) ==
    [pc |-> "validate", name |-> name, is_global |-> is_global, fault |-> fault,
     skill_path |-> NoPath, k |-> 0, phase |-> "none", stack |-> <<>>,
     out |-> <<>>, exit |-> -1, result |-> "none", io_failed |-> FALSE]

Idle == [NewProc(<<>>, FALSE, 0) EXCEPT !.pc = "idle"]

FaultFires(p) == p.fault = 1

\* the system call has been made: count it, and note an injected failure
Called(p) ==
    [p EXCEPT !.fault = IF @ > 0 THEN @ - 1 ELSE 0,
              !.io_failed = @ \/ FaultFires(p)]

\* print(...) followed by sys.exit(1)
ExitWith(p, result, msg) ==
    [p EXCEPT !.pc = "done", !.exit = 1, !.result = result,
              !.out = Append(@, msg)]

\* an exception no handler catches: the interpreter writes a traceback to
\* standard error and the process ends with status 1
Uncaught(p, path) ==
    [p EXCEPT !.pc = "done", !.exit = 1, !.result = "FileWriteError",
              !.out = Append(@, Msg("stderr", "Traceback", <<>>, path))]

ExistOk_False == FALSE

\* exist_ok=True at lines 32-34
ExistOk == TRUE

\* lines 9-11
Validate(p, f) ==
    IF ~IsValidName(p.name)
    THEN [p |-> ExitWith(p, "InvalidName",
                   Msg("stdout", "Error: Name must be lowercase alphanumeric with hyphens.",
                       p.name, NoPath)),
          fs |-> f]
    ELSE [p |-> [p EXCEPT !.pc = "resolve"], fs |-> f]

\* lines 14-22
Resolve(p, f) ==
    [p |-> [p EXCEPT !.pc = "check", !.skill_path = SkillPath(p.name, p.is_global)],
     fs |-> f]

Check_Skipped(p, f) ==
    [p |-> [p EXCEPT !.pc = "makedirs", !.k = 1, !.phase = "descend",
                     !.stack = <<Join(p.skill_path, Subdirs[1])>>,
                     !.out = Append(@, Msg("stdout", "Creating skill",
                                           p.name, p.skill_path))],
     fs |-> f]

\* lines 24-28, then entry into the first os.makedirs (line 32)
Check(p, f) ==
    IF Exists(f, p.skill_path)
    THEN [p |-> ExitWith(p, "AlreadyExists",
                   Msg("stdout", "Error: Skill directory already exists.",
                       <<>>, p.skill_path)),
          fs |-> f]
    ELSE [p |-> [p EXCEPT !.pc = "makedirs", !.k = 1, !.phase = "descend",
                          !.stack = <<Join(p.skill_path, Subdirs[1])>>,
                          !.out = Append(@, Msg("stdout", "Creating skill",
                                                p.name, p.skill_path))],
          fs |-> f]

\* a makedirs call has returned: the next one (lines 33, 34) or line 59
AfterMakedirs(p) ==
    IF p.k < Len(Subdirs)
    THEN [p EXCEPT !.k = p.k + 1, !.phase = "descend",
                   !.stack = <<Join(p.skill_path, Subdirs[p.k + 1])>>]
    ELSE [p EXCEPT !.pc = "open", !.phase = "none", !.stack = <<>>]

\* the frame on top of the stack has finished
PopFrame(p) ==
    LET q == [p EXCEPT !.stack = SubSeq(@, 1, Len(@) - 1)]
    IN  IF q.stack = <<>> THEN AfterMakedirs(q) ELSE q

\* os.makedirs, descending: "if head and tail and not path.exists(head)"
\* recurses into head; one stat per step
MakedirsDescend(p, f) ==
    LET top == p.stack[Len(p.stack)]
    IN  IF ~HeadIsEmpty(top) /\ ~Exists(f, Parent(top))
        THEN [p |-> [p EXCEPT !.stack = Append(@, Parent(top))], fs |-> f]
        ELSE [p |-> [p EXCEPT !.phase = "ascend"], fs |-> f]

\* os.makedirs, the mkdir of the innermost pending frame.  An OSError is
\* dropped when exist_ok and the path is a directory; a FileExistsError of
\* a recursive call is dropped by the caller; anything else reaches the
\* handler at lines 35-37.
MakedirsAscend(p, f) ==
    LET top == p.stack[Len(p.stack)]
        e0 == MkdirErrno(f, top)
        errno == IF e0 = "ok" /\ FaultFires(p) THEN "EACCES" ELSE e0
        q == IF e0 = "ok" THEN Called(p) ELSE p
    IN  IF errno = "ok"
        THEN [p |-> PopFrame(q), fs |-> Put(f, Abs(top), Dir)]
        ELSE IF ExistOk /\ IsDir(f, top)
        THEN [p |-> PopFrame(q), fs |-> f]
        ELSE IF errno = "EEXIST" /\ Len(p.stack) > 1
        THEN [p |-> PopFrame(q), fs |-> f]
        ELSE [p |-> ExitWith(q, "DirectoryCreationError",
                       Msg("stdout", "Error creating directories", <<>>, top)),
              fs |-> f]

\* line 59: open(skill_path / "SKILL.md", "w") creates or truncates
Open(p, f) ==
    LET path == Join(p.skill_path, SkillMd)
        e0 == OpenErrno(f, path)
        errno == IF e0 = "ok" /\ FaultFires(p) THEN "EACCES" ELSE e0
        q == IF e0 = "ok" THEN Called(p) ELSE p
    IN  IF errno = "ok"
        THEN [p |-> [q EXCEPT !.pc = "write"], fs |-> Put(f, Abs(path), File(<<>>))]
        ELSE [p |-> Uncaught(q, path), fs |-> f]

\* line 60 and the end of the with block: write and close
Write(p, f) ==
    LET path == Join(p.skill_path, SkillMd)
        q == Called(p)
    IN  IF FaultFires(p)
        THEN [p |-> Uncaught(q, path), fs |-> f]
        ELSE [p |-> [q EXCEPT !.pc = "report"],
              fs |-> Put(f, Abs(path), File(SkillMdContent(p.name)))]

\* lines 62-65, then main returns: exit status 0
Report(p, f) ==
    [p |-> [p EXCEPT !.pc = "done", !.exit = 0, !.result = "ok",
                     !.out = @ \o << Msg("stdout", "Skill created successfully!", p.name, NoPath),
                                     Msg("stdout", "Next steps:", <<>>, NoPath),
                                     Msg("stdout", "1. Edit SKILL.md", <<>>, p.skill_path),
                                     Msg("stdout", "2. Add scripts or references as needed.", <<>>, NoPath) >>],
     fs |-> f]

\* one step of create_skill
Step(p, f) ==
    CASE p.pc = "validate" -> Validate(p, f)
      [] p.pc = "resolve" -> Resolve(p, f)
      [] p.pc = "check" -> Check(p, f)
      [] p.pc = "makedirs" /\ p.phase = "descend" -> MakedirsDescend(p, f)
      [] p.pc = "makedirs" /\ p.phase = "ascend" -> MakedirsAscend(p, f)
      [] p.pc = "open" -> Open(p, f)
      [] p.pc = "write" -> Write(p, f)
      [] p.pc = "report" -> Report(p, f)

\* a whole invocation, from entry to process exit
RECURSIVE RunToExit(_, _)
RunToExit(p, f) ==
    IF p.pc = "done" THEN [p |-> p, fs |-> f]
    ELSE LET r == Step(p, f) IN RunToExit(r.p, r.fs)

----------------------------------------------------------------------------
(* Initial file systems                                                     *)

RECURSIVE WithDirs(_, _)
WithDirs(f, paths) ==
    IF paths = <<>> THEN f
    ELSE WithDirs(Put(f, Head(paths), Dir), Tail(paths))

\* the root, the home and working directories, and an enclosing project
\* root that already holds .opencode/skill
BaseFs ==
    WithDirs([x \in {<<>>} |-> Dir],
             << <<Seg("home")>>, Home, ProjectRoot, Cwd,
                ProjectRoot \o <<Seg(".opencode")>>,
                ProjectRoot \o <<Seg(".opencode"), Seg("skill")>> >>)

RECURSIVE Prefixes(_)
Prefixes(a) == IF a = <<>> THEN <<>> ELSE Append(Prefixes(SubSeq(a, 1, Len(a) - 1)), a)

\* the file system with every directory down to the base path of a scope
WithBase(f, is_global) == WithDirs(f, Prefixes(Abs(BasePath(is_global))))

FreshFileSystems ==
    {BaseFs, WithBase(BaseFs, FALSE), WithBase(BaseFs, TRUE),
     WithBase(WithBase(BaseFs, FALSE), TRUE)}

\* names whose skill directory may be occupied before the first invocation
PreNames == {<<"a", "-", "b">>}

\* something already sits at a skill path: an empty directory, a regular
\* file, or a symbolic link whose target is missing
OccupiedFileSystems ==
    {Put(WithBase(BaseFs, g), Abs(SkillPath(n, g)), e) :
        n \in PreNames, g \in BOOLEAN, e \in {Dir, File(<<>>), DanglingLink}}

InitialFileSystems == FreshFileSystems \cup OccupiedFileSystems

----------------------------------------------------------------------------
(* Invocations                                                              *)

ProcIds == {1, 2}

\* names given on the command line in Spec
NameInputs == {<<"a", "-", "b">>, <<"A", "b">>, <<"a", "_">>, <<"1">>}

\* every name of at most n characters
RECURSIVE NamesUpTo(_)
NamesUpTo(n) ==
    IF n = 0 THEN {<<>>}
    ELSE LET shorter == NamesUpTo(n - 1)
         IN  shorter \cup {Append(s, c) : s \in {t \in shorter : Len(t) = n - 1}, c \in Alphabet}

\* what is remembered of a finished invocation
RunRecord(name, is_global, before, r) ==
    [name |-> name, is_global |-> is_global, before |-> before,
     skill_path |-> r.p.skill_path, result |-> r.p.result, exit |-> r.p.exit,
     out |-> r.p.out, io_failed |-> r.p.io_failed]

\* the two most recent invocations
Remember(h, rec) == IF h = <<>> THEN <<rec>> ELSE <<h[Len(h)], rec>>

Init ==
    /\ fs \in InitialFileSystems
    /\ procs = [i \in ProcIds |-> Idle]
    /\ hist = <<>>

\* main(): one invocation of the script, run from entry to exit
CreateSkill(name, is_global, fault) ==
    LET r == RunToExit(NewProc(name, is_global, fault), fs)
    IN  /\ fs' = r.fs
        /\ hist' = Remember(hist, RunRecord(name, is_global, fs, r))
        /\ UNCHANGED procs

Next ==
    \E name \in NameInputs, is_global \in BOOLEAN, fault \in 0..MaxFault :
        CreateSkill(name, is_global, fault)

\* invocations of the script one after another
Spec == Init /\ [][Next]_vars

\* a single invocation with an arbitrary name
CreateSkillOnce(name, is_global, fault) ==
    /\ hist = <<>>
    /\ CreateSkill(name, is_global, fault)

NextOnce ==
    \E name \in NamesUpTo(MaxLen), is_global \in BOOLEAN, fault \in 0..MaxFault :
        CreateSkillOnce(name, is_global, fault)

SpecOnce == Init /\ [][NextOnce]_vars

\* two invocations with the same name and scope running at the same time
RaceName == <<"a", "-", "b">>

InitRace ==
    /\ fs \in FreshFileSystems
    /\ \E is_global \in BOOLEAN :
          procs \in [ProcIds -> {NewProc(RaceName, is_global, k) : k \in 0..MaxFault}]
    /\ hist = <<>>

\* one step of process i; hist notes what each collision check saw
ProcStep(i) ==
    /\ procs[i].pc \notin {"idle", "done"}
    /\ LET r == Step(procs[i], fs)
       IN  /\ fs' = r.fs
           /\ procs' = [procs EXCEPT ![i] = r.p]
           /\ hist' = IF procs[i].pc = "check"
                      THEN Append(hist, [proc |-> i,
                                         present |-> Present(fs, Abs(procs[i].skill_path))])
                      ELSE hist

NextRace == \E i \in ProcIds : ProcStep(i)

SpecRace == InitRace /\ [][NextRace]_vars

----------------------------------------------------------------------------
(* Vocabulary of the properties                                             *)

Ran == hist # <<>>
Last == hist[Len(hist)]

OnlyLowerDigitHyphen(name) == Range(name) \subseteq LowerChars \cup DigitChars \cup {Hyphen}

HasUpperOrForeignChar(name) ==
    \E c \in Range(name) :
        c \in UpperChars \/ (c \notin LowerChars \cup UpperChars /\ c \notin DigitChars /\ c # Hyphen)

\* the directory the documentation promises for a name and a scope
ExpectedTarget(name, is_global) ==
    IF is_global
    THEN <<Seg("home"), Seg("user"), Seg(".config"), Seg("opencode"), Seg("skill"), name>>
    ELSE <<Seg("tmp"), Seg("proj"), Seg(".opencode"), Seg("skill"), name>>

\* the SKILL.md format of the documentation, for a name and a title
ExpectedDescriptor(name, title) ==
    << <<"---">>,
       <<"name: ">> \o name,
       <<"description: [TODO: Add a concise description of what this skill does and when to use it]">>,
       <<"---">>,
       <<>>,
       <<"# ">> \o title,
       <<>>,
       <<"## Overview">>,
       <<"[TODO: Describe the skill's purpose]">>,
       <<>>,
       <<"## Usage">>,
       <<"[TODO: Describe how to use the skill]">>,
       <<>>,
       <<"## Resources">>,
       <<"* Scripts are in ", Backtick, "scripts/", Backtick>>,
       <<"* References are in ", Backtick, "references/", Backtick>>,
       <<"* Assets are in ", Backtick, "assets/", Backtick>> >>

\* everything the file system holds at or below a path
Below(f, a) == {x \in DOMAIN f : IsPrefix(a, x)}

\* the complete layout of a skill at path a, and nothing else below a
LayoutIs(f, a, data) ==
    /\ Below(f, a) = {a, Append(a, Seg("scripts")), Append(a, Seg("references")),
                      Append(a, Seg("assets")), Append(a, Seg("SKILL.md"))}
    /\ \A d \in {a, Append(a, Seg("scripts")), Append(a, Seg("references")),
                 Append(a, Seg("assets"))} : f[d] = Dir
    /\ f[Append(a, Seg("SKILL.md"))] = File(data)

\* the title as words: a character that opens a hyphen-separated word is
\* upper-cased, every other character is kept
WordTitle(name) ==
    [i \in 1..Len(name) |->
        IF name[i] = Hyphen THEN " "
        ELSE IF i = 1 \/ name[i - 1] = Hyphen THEN ToUpper(name[i])
        ELSE name[i]]

\* the title as runs of letters: a letter that does not follow a letter is
\* upper-cased, every other character is kept
LetterRunTitle(name) ==
    [i \in 1..Len(name) |->
        IF name[i] = Hyphen THEN " "
        ELSE IF IsLetter(name[i]) /\ (i = 1 \/ ~IsLetter(name[i - 1])) THEN ToUpper(name[i])
        ELSE name[i]]

TitleLine(f, a) == f[Append(a, Seg("SKILL.md"))].data[6]

FailedPartWay(rec) == rec.result \in {"DirectoryCreationError", "FileWriteError"}

----------------------------------------------------------------------------
(* C1 *)

\* C1: every name made up only of lowercase letters, digits and hyphens
\* passes the name validation of create_skill (no InvalidName).
C1_EveryLowerDigitHyphenNameValid ==
    (Ran /\ OnlyLowerDigitHyphen(Last.name)) => Last.result # "InvalidName"

\* C1, amended: every name made up only of lowercase letters, digits and
\* hyphens that contains at least one lowercase letter passes the name
\* validation of create_skill.
C1_NamesWithALowercaseLetterValid ==
    (Ran /\ OnlyLowerDigitHyphen(Last.name) /\ Range(Last.name) \cap LowerChars # {})
        => Last.result # "InvalidName"

C1_Witness ==
    /\ Ran
    /\ OnlyLowerDigitHyphen(Last.name)
    /\ {Hyphen, "1"} \subseteq Range(Last.name)
    /\ Range(Last.name) \cap LowerChars # {}
    /\ Last.result = "ok"

----------------------------------------------------------------------------
(* C2 *)

\* C2: a name holding an uppercase letter, or a character that is neither
\* a letter, a digit nor a hyphen, makes create_skill fail with InvalidName
\* and exit status 1, the file system left exactly as it was.
C2_BadNameRejectedUntouched ==
    (Ran /\ HasUpperOrForeignChar(Last.name))
        => /\ Last.result = "InvalidName"
           /\ Last.exit = 1
           /\ fs = Last.before

C2_Witness ==
    /\ Ran
    /\ Last.name = <<"A", "a", "_">>
    /\ Last.result = "InvalidName"
    /\ fs = Last.before

----------------------------------------------------------------------------
(* C3 *)

\* C3: when something of any type sits at skillPath before the invocation,
\* create_skill fails with AlreadyExists and changes nothing on the file
\* system.
C3_ExistingTargetRefused ==
    (Ran /\ IsValidName(Last.name)
         /\ Present(Last.before, ExpectedTarget(Last.name, Last.is_global)))
        => /\ Last.result = "AlreadyExists"
           /\ fs = Last.before

----------------------------------------------------------------------------
(* C4 *)

\* C4: when create_skill reports success, the file system holds at and
\* below skillPath exactly the four directories and the file SKILL.md, whose
\* content is the documented template with the name and title filled in.
C4_SuccessLeavesExactLayout ==
    (Ran /\ Last.result = "ok")
        => LayoutIs(fs, ExpectedTarget(Last.name, Last.is_global),
                    ExpectedDescriptor(Last.name, Title(Last.name)))

C4_Witness ==
    /\ Ran
    /\ Last.result = "ok"
    /\ Last.exit = 0
    /\ ~Present(Last.before, ExpectedTarget(Last.name, Last.is_global))
    /\ Present(fs, Append(ExpectedTarget(Last.name, Last.is_global), Seg("SKILL.md")))

----------------------------------------------------------------------------
(* C5 *)

\* C5: every failing invocation, whatever the error kind, ends with exit
\* status 1 and with a one-line diagnostic on standard output that names
\* the offending name or path.
C5_EveryFailureDiagnosedOnStdout ==
    (Ran /\ Last.result # "ok")
        => /\ Last.exit = 1
           /\ Last.out # <<>>
           /\ LET m == Last.out[Len(Last.out)]
              IN  /\ m.stream = "stdout"
                  /\ m.text # "Traceback"
                  /\ (m.name # <<>> \/ m.path # NoPath)

----------------------------------------------------------------------------
(* C6 *)

\* C6: of two invocations in a row with the same valid name and scope, the
\* first starting with nothing at skillPath and neither meeting an I/O
\* failure, the first succeeds and the second fails with AlreadyExists and
\* leaves the file system as the first left it.
C6_SecondRunRefused ==
    (/\ Len(hist) = 2
     /\ hist[1].name = hist[2].name
     /\ hist[1].is_global = hist[2].is_global
     /\ IsValidName(hist[1].name)
     /\ ~Present(hist[1].before, ExpectedTarget(hist[1].name, hist[1].is_global))
     /\ ~hist[1].io_failed
     /\ ~hist[2].io_failed)
        => /\ hist[1].result = "ok"
           /\ hist[2].result = "AlreadyExists"
           /\ hist[2].exit = 1
           /\ fs = hist[2].before

C6_Witness ==
    /\ Len(hist) = 2
    /\ hist[1].name = hist[2].name
    /\ hist[1].is_global = hist[2].is_global
    /\ ~Present(hist[1].before, ExpectedTarget(hist[1].name, hist[1].is_global))
    /\ hist[1].result = "ok"
    /\ hist[2].result = "AlreadyExists"

----------------------------------------------------------------------------
(* C7 *)

----------------------------------------------------------------------------
(* C8 *)

\* C8: the title line of SKILL.md is "# " followed by the name with each
\* hyphen turned into a space, the first character of each hyphen-separated
\* word upper-cased and every other character left as in the name.
C8_TitleUppercasesFirstOfEachWord ==
    (Ran /\ Last.result = "ok")
        => TitleLine(fs, ExpectedTarget(Last.name, Last.is_global))
             = <<"# ">> \o WordTitle(Last.name)

\* C8, amended: the title line of SKILL.md is "# " followed by the name
\* with each hyphen turned into a space and every letter that does not
\* directly follow a letter upper-cased (the first letter of a word, and a
\* letter after a digit), every other character left as in the name.
C8_TitleUppercasesFirstOfEachLetterRun ==
    (Ran /\ Last.result = "ok")
        => TitleLine(fs, ExpectedTarget(Last.name, Last.is_global))
             = <<"# ">> \o LetterRunTitle(Last.name)

C8_Witness ==
    /\ Ran
    /\ Last.result = "ok"
    /\ Last.name = <<"a", "1", "b">>
    /\ TitleLine(fs, ExpectedTarget(Last.name, Last.is_global)) = <<"# ", "A", "1", "B">>

----------------------------------------------------------------------------
(* C9 *)

\* C9: after an invocation failed part-way, having created something, what
\* it created is still there, and a second invocation with the same name and
\* scope that meets no I/O failure completes the layout and succeeds.
C9_RerunRecovers ==
    (/\ Len(hist) = 2
     /\ hist[1].name = hist[2].name
     /\ hist[1].is_global = hist[2].is_global
     /\ FailedPartWay(hist[1])
     /\ hist[2].before # hist[1].before
     /\ ~hist[2].io_failed)
        => /\ DOMAIN hist[2].before \subseteq DOMAIN fs
           /\ hist[2].result = "ok"
           /\ LayoutIs(fs, ExpectedTarget(hist[2].name, hist[2].is_global),
                       ExpectedDescriptor(hist[2].name, Title(hist[2].name)))

----------------------------------------------------------------------------
(* C10 *)

BothChecksSawNothing ==
    /\ {e.proc : e \in Range(hist)} = ProcIds
    /\ \A e \in Range(hist) : ~e.present

\* C10: when two concurrent invocations with the same name and scope both
\* pass the collision check before either has created skillPath, and no
\* system call fails for an outside reason, neither fails, with AlreadyExists
\* or otherwise, and once both have ended both have reported success on the
\* complete layout.
C10_RacingInvocationsBothSucceed ==
    (BothChecksSawNothing /\ \A i \in ProcIds : ~procs[i].io_failed)
        => /\ \A i \in ProcIds : procs[i].result \in {"none", "ok"}
           /\ (\A i \in ProcIds : procs[i].pc = "done")
                => /\ \A i \in ProcIds : procs[i].exit = 0
                   /\ LayoutIs(fs, ExpectedTarget(RaceName, procs[1].is_global),
                               ExpectedDescriptor(RaceName, Title(RaceName)))

C10_Witness ==
    /\ BothChecksSawNothing
    /\ \A i \in ProcIds : procs[i].pc = "done" /\ procs[i].result = "ok" /\ ~procs[i].io_failed

====
